---------------------------- MODULE Spec2Model ----------------------------
(***************************************************************************)
(* A model of one Kasocki session (lib/Kasocki.js): the per-socket Kafka   *)
(* consumer, its socket event handlers, the handler wrap, and the consume  *)
(* promise chains (pull mode and the push loop).                           *)
(*                                                                         *)
(* One step of the model is one turn of the node event loop: a socket      *)
(* event handled to its first suspension point, a librdkafka worker        *)
(* picking up the result of a poll, or the callback of a finished poll (or *)
(* of an elapsed delay) running its promise chain to the next suspension   *)
(* point.                                                                  *)
(***************************************************************************)
EXTENDS Integers, Sequences, FiniteSets, Bags, TLC

----------------------------------------------------------------------------
(* Bounds of the model *)

\* records per topic partition that exist or get produced: offsets 0..MaxLog-1
MaxLog == 2
\* consume promise chains (pull chains and push loops) alive at once
MaxChains == 2

\* log end of every partition at the time of assign(), where 'latest' starts:
\* the last record of each partition is produced after the subscription
LogEnd == MaxLog - 1

----------------------------------------------------------------------------
(* Values *)

\* topics the broker metadata lists; "t2" is a name no broker topic has
MetadataTopics == {"t1"}

\* options.allowedTopics: absent, or a list of names
NoAllowList == [given |-> FALSE, topics |-> {}]
AllowLists ==
    { NoAllowList,
      [given |-> TRUE, topics |-> {"t1", "t2"}],
      [given |-> TRUE, topics |-> {"t2"}] }

Name(t)        == [kind |-> "name", topic |-> t]
Tuple(t, p, o) == [kind |-> "tuple", topic |-> t, partition |-> p, offset |-> o]
\* a tuple whose partition, or offset, is not an integer
NonIntegerTuple(t, field) == [kind |-> "tuple", topic |-> t, nonInteger |-> field]
Assignment(t, p, o) == [topic |-> t, partition |-> p, offset |-> o]

\* arguments of the subscribe event: a bare string, an array, anything else
SubscribeArgs ==
    { [kind |-> "string", topic |-> "t1"],
      [kind |-> "string", topic |-> "t2"],
      [kind |-> "array", items |-> << Name("t1") >>],
      [kind |-> "array", items |-> << Name("t2") >>],
      [kind |-> "array", items |-> << Name("t1"), Name("t2") >>],
      [kind |-> "array", items |-> << Tuple("t1", 0, 0) >>],
      [kind |-> "array", items |-> << Tuple("t1", 0, -1) >>],
      [kind |-> "array", items |-> << Tuple("t2", 0, 0) >>],
      [kind |-> "array", items |-> << Tuple("t1", 0, 0), Tuple("t2", 0, 0) >>],
      [kind |-> "array", items |-> << >>],
      [kind |-> "array", items |-> << Name("t1"), Tuple("t1", 0, 0) >>],
      [kind |-> "array", items |-> << Name("t2"), Tuple("t1", 0, 0) >>],
      [kind |-> "array", items |-> << Tuple("t1", -1, 0) >>],
      [kind |-> "array", items |-> << Tuple("t2", -1, 0) >>],
      [kind |-> "array", items |-> << Tuple("t1", 0, -2) >>],
      [kind |-> "array", items |-> << NonIntegerTuple("t1", "partition") >>],
      [kind |-> "array", items |-> << NonIntegerTuple("t1", "offset") >>],
      [kind |-> "other"] }

\* arguments of the filter event: null or undefined; a scalar that is falsy
\* in JavaScript (0, "", false); the empty mapping; a mapping asking for one
\* value; any other value that is not a mapping; a mapping with a nested
\* mapping as value, with a malformed regex literal, with an unsafe regex
NullFilter     == [kind |-> "null"]
FalsyFilter    == [kind |-> "falsy"]
EmptyFilter    == [kind |-> "empty"]
ValFilter(v)   == [kind |-> "map", val |-> v]
ScalarFilter   == [kind |-> "scalar"]
NestedFilter   == [kind |-> "nested"]
BadRegexFilter == [kind |-> "badRegex"]
UnsafeFilter   == [kind |-> "unsafe"]
\* the arguments a session is followed with through all its events, and every
\* kind of argument
FilterArgs     == { NullFilter, ValFilter("a"), UnsafeFilter }
FilterSpecs    == FilterArgs \cup { FalsyFilter, EmptyFilter, ScalarFilter,
                                    NestedFilter, BadRegexFilter }

\* this.matcher when no filter is installed
NoMatcher == [kind |-> "undefined"]

\* payloads of Kafka records: two JSON documents and one that is not JSON
Payloads == {"a", "b", "bad"}

\* a JSON document on which a compiled matcher meets a runtime error
AnomalousPayloads == {"odd"}

\* a deserialized message
Message(t, o, v) == [topic |-> t, offset |-> o, val |-> v]

\* results of a KafkaConsumer.consume() call
NoResult        == [r |-> "none"]
Record(t, o)    == [r |-> "record", topic |-> t, offset |-> o]
KafkaError(c)   == [r |-> "error", code |-> c]
KafkaErrorCodes == {"ERR__PARTITION_EOF", "ERR__TIMED_OUT", "ERR_UNKNOWN"}

\* a consume promise chain: of a consume event ("pull") or of _loop ("loop");
\* waiting for its poll ("poll"), its poll back with a record and the
\* callback queued ("got"), or waiting for the delay to elapse ("delay")
Polling(kind)    == [kind |-> kind, st |-> "poll", res |-> NoResult]
Got(kind, res)   == [kind |-> kind, st |-> "got", res |-> res]
Delaying(kind)   == [kind |-> kind, st |-> "delay", res |-> NoResult]

\* calls made on the socket: ack callbacks and emits
Ack(ev, v)      == [k |-> "ack", ev |-> ev, e |-> "none", v |-> v]
AckError(ev, e) == [k |-> "ack", ev |-> ev, e |-> e, v |-> << >>]
EmitErr(ev, e)  == [k |-> "err", ev |-> ev, e |-> e, v |-> << >>]
EmitMessage(v)  == [k |-> "message", ev |-> "loop", e |-> "none", v |-> v]
EmitReady(ts)   == [k |-> "ready", ev |-> "connect", e |-> "none", v |-> << ts >>]
SocketDisconnect == [k |-> "disconnect", ev |-> "disconnect", e |-> "none", v |-> << >>]

\* the socket ids, and the one of the session followed through its events
SocketIds == {"s1", "s2"}
SocketId  == "s1"

\* the librdkafka settings the constructor names, and what a user may give
\* for each in options.kafkaConfig
ConfigKeys == {"metadata.broker.list", "client.id", "enable.auto.commit", "group.id"}
UserValues ==
    [k \in ConfigKeys |->
        CASE k = "metadata.broker.list" -> {"kafka1:9092", "localhost:9092"}
          [] k = "client.id"            -> {"me", "kasocki-s1"}
          [] k = "enable.auto.commit"   -> {"true", "false"}
          [] k = "group.id"             -> {"mygroup", "kasocki-s2"}]

\* options.kafkaConfig: any of the settings, each with one of its values;
\* with none when options.kafkaConfig is not given
NoKafkaConfig == [k \in {} |-> ""]
UserKafkaConfigs ==
    UNION { { f \in [D -> UNION { UserValues[k] : k \in ConfigKeys }] :
                \A k \in D : f[k] \in UserValues[k] } : D \in SUBSET ConfigKeys }

----------------------------------------------------------------------------
VARIABLES
    name,             \* this.name, the socket's id
    options,          \* this.options.kafkaConfig
    kafkaConfig,      \* this.kafkaConfig
    pc,               \* the constructor and connect(): "constructing", then
                      \* "threw" (the constructor threw) or
                      \* "new" (not run yet), "ready" (handlers registered),
                      \* "noBroker" (no KafkaConsumer was created), "noTopics";
                      \* "gone" (not run yet, the socket has disconnected),
                      \* "orphan" (handlers registered on a disconnected socket)
    availableTopics,  \* this.availableTopics
    subscribed,       \* this.subscribed
    running,          \* this.running
    closing,          \* this.closing
    matcher,          \* this.matcher
    kafkaConsumer,    \* 'kafkaConsumer' in this
    assigned,         \* the assignment KafkaConsumer.assign() last installed
    assignCalls,      \* calls of KafkaConsumer.assign() that returned
    disconnectCalls,  \* calls of KafkaConsumer.disconnect()
    position,         \* broker: next offset to read, per assigned topic
    chains,           \* the bag of consume promise chains that have not settled
    phase,            \* history: "fresh", "started", "stopped" (a stop was handled
                      \* while running, no start since), "resumed"
    disconnects,      \* history: disconnect() was invoked "never", "once", "again"
    delivered,        \* history: records given to the socket, in order
    skipped,          \* history: records dropped, each with the cause (bad data,
                      \* filter miss)
    out               \* the calls the last step made on the socket, in order

vars == << name, options, kafkaConfig, pc, availableTopics, subscribed, running, closing,
           matcher, kafkaConsumer, assigned, assignCalls, disconnectCalls,
           position, chains, phase, disconnects, delivered, skipped, out >>

construction == << name, options, kafkaConfig >>
session == << subscribed, running, closing, matcher >>
broker  == << kafkaConsumer, assigned, assignCalls, disconnectCalls, position >>
history == << delivered, skipped >>

\* Object.assign(target, source): the source's settings over the target's
ObjectAssign(target, source) ==
    [k \in DOMAIN target \cup DOMAIN source |->
        IF k \in DOMAIN source THEN source[k] ELSE target[k]]

\* what is used for a setting options.kafkaConfig does not give
defaultKafkaConfig(socketId) ==
    [k \in {"metadata.broker.list", "client.id"} |->
        IF k = "metadata.broker.list" THEN "localhost:9092"
        ELSE "kasocki-" \o socketId]

\* what is used whatever options.kafkaConfig gives
mandatoryKafkaConfig(socketId) ==
    [k \in {"enable.auto.commit", "group.id"} |->
        IF k = "enable.auto.commit" THEN "false"
        ELSE "kasocki-" \o socketId]

\* faulty variant: the user's settings merged last
mergeKafkaConfig_UserLast(socketId, userConfig) ==
    ObjectAssign(ObjectAssign(defaultKafkaConfig(socketId),
                              mandatoryKafkaConfig(socketId)),
                 userConfig)

\* the constructor's merge: provided over default, mandatory over all
mergeKafkaConfig(socketId, userConfig) ==
    ObjectAssign(ObjectAssign(defaultKafkaConfig(socketId), userConfig),
                 mandatoryKafkaConfig(socketId))

\* the fields of a session but this.kafkaConfig, as the constructor sets them
Fresh(socketId, userConfig) ==
    /\ name = socketId
    /\ options = userConfig
    /\ availableTopics = {}
    /\ subscribed = FALSE
    /\ running = FALSE
    /\ closing = FALSE
    /\ matcher = NoMatcher
    /\ kafkaConsumer = FALSE
    /\ assigned = << >>
    /\ assignCalls = 0
    /\ disconnectCalls = 0
    /\ position = << >>
    /\ chains = EmptyBag
    /\ phase = "fresh"
    /\ disconnects = "never"
    /\ delivered = << >>
    /\ skipped = {}
    /\ out = << >>

\* the session of one socket, made without options.kafkaConfig
Init ==
    /\ Fresh(SocketId, NoKafkaConfig)
    /\ kafkaConfig = mergeKafkaConfig(SocketId, NoKafkaConfig)
    /\ pc = "new"

----------------------------------------------------------------------------
(* lib/utils.js and lib/objectutils.js, as the session uses them *)

\* utils.getAvailableTopics: the existent topics, cut to the allowed ones
getAvailableTopics(topics, allowed) ==
    IF allowed.given THEN topics \cap allowed.topics ELSE topics

\* utils.validateAssignments: a non-empty array, all topic names or all
\* tuples, each tuple with a partition >= 0 and an offset >= -1
validateAssignments(a) ==
    /\ a.kind = "array"
    /\ Len(a.items) > 0
    /\ \/ \A i \in 1..Len(a.items) : a.items[i].kind = "name"
       \/ \A i \in 1..Len(a.items) :
            /\ a.items[i].kind = "tuple"
            /\ {"partition", "offset"} \subseteq DOMAIN a.items[i]
            /\ a.items[i].partition >= 0
            /\ a.items[i].offset >= -1

\* the partitions broker metadata lists for a topic (records are produced to
\* partition 0 only, partition 1 stays empty)
MetadataPartitions(t) == << 0, 1 >>

RECURSIVE PartitionAssignments(_, _)
PartitionAssignments(t, ps) ==
    IF ps = << >> THEN << >>
    ELSE << Assignment(t, Head(ps), -1) >> \o PartitionAssignments(t, Tail(ps))

\* utils.buildAssignments: every partition of every named topic, at latest
RECURSIVE buildAssignments(_)
buildAssignments(names) ==
    IF names = << >> THEN << >>
    ELSE PartitionAssignments(Head(names), MetadataPartitions(Head(names)))
            \o buildAssignments(Tail(names))

\* objectutils.createMatcherFunctionWithFilters throws on this filter object
matcherFactoryThrows(filters) == filters.kind \notin {"map", "empty"}

\* the matcher built from filters meets a runtime error on this message (a
\* regex that cannot be run on the value), which it notes in matcher.errors
matcherErrors(filters, message) == filters.kind = "map" /\ message.val = "odd"

\* the matcher built from filters throws on this message: never
matcherThrows(filters, message) == FALSE

\* the matcher built from filters, applied to a message
matcherAccepts(filters, message) ==
    IF matcherErrors(filters, message) THEN FALSE
    ELSE filters.kind = "empty" \/ message.val = filters.val

\* utils.deserializeKafkaMessage throws on this payload
deserializerThrows(payload) == payload = "bad"

----------------------------------------------------------------------------
(* lib/Kasocki.js *)

\* faulty variant: a wrap that emits err only to clients that gave an ack
wrapHandler_ErrWithAckOnly(ev, cb, err, v) ==
    IF err = "none"
    THEN IF cb THEN << Ack(ev, v) >> ELSE << >>
    ELSE IF cb THEN << AckError(ev, err), EmitErr(ev, err) >>
               ELSE << >>

\* _wrapHandler: what the wrap does with a handler's result or error
wrapHandler(ev, cb, err, v) ==
    IF err = "none"
    THEN IF cb THEN << Ack(ev, v) >> ELSE << >>
    ELSE IF cb THEN << AckError(ev, err), EmitErr(ev, err) >>
               ELSE << EmitErr(ev, err) >>

\* faulty variant: _checkTopicsAvailable looking at the first topic only
checkTopicsAvailable_FirstOnly(topics) ==
    topics = << >> \/ topics[1] \in availableTopics

\* _checkTopicsAvailable: no topic of the list is missing from availableTopics
checkTopicsAvailable(topics) ==
    \A i \in 1..Len(topics) : topics[i] \in availableTopics

TopicsOf(items) == [i \in 1..Len(items) |-> items[i].topic]

\* faulty variant: subscribe resetting the offsets of a tuple request to latest
subscribeRequest_TuplesAtLatest(arg) ==
    LET a == IF arg.kind = "string"
             THEN [kind |-> "array", items |-> << Name(arg.topic) >>]
             ELSE arg
    IN  IF ~validateAssignments(a)
        THEN [err |-> "InvalidAssignmentError", assignments |-> << >>]
        ELSE IF ~checkTopicsAvailable(TopicsOf(a.items))
        THEN [err |-> "TopicNotAvailableError", assignments |-> << >>]
        ELSE IF a.items[1].kind = "name"
        THEN [err |-> "none", assignments |-> buildAssignments(TopicsOf(a.items))]
        ELSE [err |-> "none",
              assignments |-> [i \in 1..Len(a.items) |->
                  Assignment(a.items[i].topic, a.items[i].partition, -1)]]

\* faulty variant: subscribe looking at the topics before it validates
subscribeRequest_TopicsFirst(arg) ==
    LET a == IF arg.kind = "string"
             THEN [kind |-> "array", items |-> << Name(arg.topic) >>]
             ELSE arg
    IN  IF a.kind = "array" /\ ~checkTopicsAvailable(TopicsOf(a.items))
        THEN [err |-> "TopicNotAvailableError", assignments |-> << >>]
        ELSE IF ~validateAssignments(a)
        THEN [err |-> "InvalidAssignmentError", assignments |-> << >>]
        ELSE IF a.items[1].kind = "name"
        THEN [err |-> "none", assignments |-> buildAssignments(TopicsOf(a.items))]
        ELSE [err |-> "none",
              assignments |-> [i \in 1..Len(a.items) |->
                  Assignment(a.items[i].topic, a.items[i].partition, a.items[i].offset)]]

\* subscribe, after the closing and subscribed checks: the error it throws,
\* or the assignments it hands to KafkaConsumer.assign()
subscribeRequest(arg) ==
    LET a == IF arg.kind = "string"
             THEN [kind |-> "array", items |-> << Name(arg.topic) >>]
             ELSE arg
    IN  IF ~validateAssignments(a)
        THEN [err |-> "InvalidAssignmentError", assignments |-> << >>]
        ELSE IF ~checkTopicsAvailable(TopicsOf(a.items))
        THEN [err |-> "TopicNotAvailableError", assignments |-> << >>]
        ELSE IF a.items[1].kind = "name"
        THEN [err |-> "none", assignments |-> buildAssignments(TopicsOf(a.items))]
        ELSE [err |-> "none",
              assignments |-> [i \in 1..Len(a.items) |->
                  Assignment(a.items[i].topic, a.items[i].partition, a.items[i].offset)]]

\* faulty variant: subscribe without the test of this.subscribed
subscribeRefused_NoTest == FALSE

\* subscribe: the guard that refuses a second subscription
subscribeRefused == subscribed

\* the broker's starting positions for an assignment list
StartPositions(assignments) ==
    [t \in {assignments[i].topic : i \in 1..Len(assignments)} |->
        LET i == CHOOSE j \in 1..Len(assignments) : assignments[j].topic = t
        IN  IF assignments[i].offset = -1 THEN LogEnd ELSE assignments[i].offset]

\* faulty variant: subscribe setting this.subscribed before the assign() call
subscribedAfterAssign_SetFirst(returned) == TRUE

\* subscribe: this.subscribed after the assign() call, which returned or threw
subscribedAfterAssign(returned) == IF returned THEN TRUE ELSE subscribed

Subscribe(arg) ==
    /\ pc = "ready"
    /\ UNCHANGED << construction, pc, availableTopics, running, closing, matcher,
                    kafkaConsumer, disconnectCalls, chains, phase, disconnects,
                    history >>
    /\ IF closing
       THEN /\ out' = wrapHandler("subscribe", TRUE, "none", << >>)
            /\ UNCHANGED << subscribed, assigned, assignCalls, position >>
       ELSE IF subscribeRefused
       THEN /\ out' = wrapHandler("subscribe", TRUE, "AlreadySubscribedError", << >>)
            /\ UNCHANGED << subscribed, assigned, assignCalls, position >>
       ELSE LET r == subscribeRequest(arg)
            IN  IF r.err # "none"
                THEN /\ out' = wrapHandler("subscribe", TRUE, r.err, << >>)
                     /\ UNCHANGED << subscribed, assigned, assignCalls, position >>
                \* KafkaConsumer.assign() returns, or throws
                ELSE \/ /\ assigned' = r.assignments
                        /\ assignCalls' = assignCalls + 1
                        /\ position' = StartPositions(r.assignments)
                        /\ subscribed' = subscribedAfterAssign(TRUE)
                        /\ out' = wrapHandler("subscribe", TRUE, "none", r.assignments)
                     \/ /\ subscribed' = subscribedAfterAssign(FALSE)
                        /\ UNCHANGED << assigned, assignCalls, position >>
                        /\ out' = wrapHandler("subscribe", TRUE, "KasockiError", << >>)

\* faulty variant: filter without the guard that disables filtering
filterDisabled_Never(filters) == FALSE

\* filter: the guard on the argument that disables filtering, !filters
filterDisabled(filters) == filters.kind \in {"null", "falsy"}

Filter(filters) ==
    /\ pc = "ready"
    /\ UNCHANGED << construction, pc, availableTopics, subscribed, running, closing,
                    broker, chains, phase, disconnects, history >>
    /\ IF filterDisabled(filters)
       THEN /\ matcher' = NoMatcher
            /\ out' = wrapHandler("filter", TRUE, "none", << >>)
       ELSE IF matcherFactoryThrows(filters)
       THEN /\ matcher' = matcher
            /\ out' = wrapHandler("filter", TRUE, "InvalidFilterError", << >>)
       ELSE /\ matcher' = filters
            /\ out' = wrapHandler("filter", TRUE, "none", << filters >>)


\* faulty variant: consume() without the test of this.subscribed
consume_NoSubscribedTest ==
    IF closing THEN "undefined" ELSE "poll"

\* the synchronous part of consume(): nothing when closing, an error when
\* not subscribed, else a call of KafkaConsumer.consumeAsync()
consume ==
    IF closing THEN "undefined"
    ELSE IF ~subscribed THEN "NotSubscribedError"
    ELSE "poll"

One(ch) == SetToBag({ch})
HasFreeChain == BagCardinality(chains) < MaxChains

Consume ==
    /\ pc = "ready"
    /\ UNCHANGED << construction, pc, availableTopics, session, broker, phase,
                    disconnects, history >>
    /\ IF consume = "poll"
       THEN /\ HasFreeChain
            /\ chains' = chains (+) One(Polling("pull"))
            /\ out' = << >>
       ELSE /\ chains' = chains
            /\ out' = IF consume = "undefined"
                      THEN wrapHandler("consume", TRUE, "none", << >>)
                      ELSE wrapHandler("consume", TRUE, consume, << >>)

\* faulty variant: start without the test of this.closing
startRefused_NoClosingTest ==
    IF running THEN "AlreadyStartedError"
    ELSE IF ~subscribed THEN "NotSubscribedError"
    ELSE "none"

\* faulty variant: start without the test of this.running
startRefused_NoRunningTest ==
    IF closing THEN "AlreadyClosingError"
    ELSE IF ~subscribed THEN "NotSubscribedError"
    ELSE "none"

\* faulty variant: start without the test of this.subscribed
startRefused_NoSubscribedTest ==
    IF running THEN "AlreadyStartedError"
    ELSE IF closing THEN "AlreadyClosingError"
    ELSE "none"

\* start: the error it throws, if any, in the order the code tests
startRefused ==
    IF running THEN "AlreadyStartedError"
    ELSE IF closing THEN "AlreadyClosingError"
    ELSE IF ~subscribed THEN "NotSubscribedError"
    ELSE "none"

Start ==
    /\ pc = "ready"
    /\ UNCHANGED << construction, pc, availableTopics, subscribed, closing, matcher,
                    broker, disconnects, history >>
    /\ IF startRefused # "none"
       THEN /\ out' = wrapHandler("start", TRUE, startRefused, << >>)
            /\ UNCHANGED << running, chains, phase >>
       ELSE /\ HasFreeChain
            /\ running' = TRUE
            /\ phase' = IF phase = "fresh" THEN "started" ELSE "resumed"
            \* _loop(): running is true, so its consume() issues the first poll
            /\ chains' = chains (+) One(Polling("loop"))
            /\ out' = wrapHandler("start", TRUE, "none", << >>)

\* faulty variant: stop failing when the loop is not running
Stop_RefusedWhenIdle ==
    /\ pc = "ready"
    /\ UNCHANGED << construction, pc, availableTopics, subscribed, closing, matcher,
                    broker, chains, disconnects, history >>
    /\ IF running
       THEN /\ running' = FALSE /\ phase' = "stopped"
            /\ out' = wrapHandler("stop", TRUE, "none", << >>)
       ELSE /\ UNCHANGED << running, phase >>
            /\ out' = wrapHandler("stop", TRUE, "KasockiError", << >>)

Stop ==
    /\ pc = "ready"
    /\ UNCHANGED << construction, pc, availableTopics, subscribed, closing, matcher,
                    broker, chains, disconnects, history >>
    /\ IF running
       THEN running' = FALSE /\ phase' = "stopped"
       ELSE UNCHANGED << running, phase >>
    /\ out' = wrapHandler("stop", TRUE, "none", << >>)

\* faulty variant: disconnect without the delete of this.kafkaConsumer
kafkaConsumerAfterDisconnect_Kept == TRUE

\* disconnect: whether 'kafkaConsumer' is in this after the handle was released
kafkaConsumerAfterDisconnect == FALSE

\* disconnect(), given whether this holds a KafkaConsumer when it is called
disconnect(hasConsumer) ==
    /\ running' = FALSE
    /\ closing' = TRUE
    /\ disconnects' = IF disconnects = "never" THEN "once" ELSE "again"
    /\ IF hasConsumer
       THEN /\ disconnectCalls' = disconnectCalls + 1
            /\ kafkaConsumer' = kafkaConsumerAfterDisconnect
       ELSE /\ disconnectCalls' = disconnectCalls
            /\ kafkaConsumer' = FALSE

\* the socket's disconnect event: socket.io gives it no ack callback
Disconnect ==
    /\ pc = "ready"
    /\ disconnect(kafkaConsumer)
    /\ out' = wrapHandler("disconnect", FALSE, "none", << >>) \o << SocketDisconnect >>
    /\ UNCHANGED << construction, pc, availableTopics, subscribed, matcher,
                    assigned, assignCalls, position, chains, phase, history >>

\* the socket disconnects while connect() is pending: the handler of the
\* disconnect event is registered at the end of connect() only, so the event
\* finds no listener and no later socket event arrives
DisconnectBeforeReady ==
    /\ pc = "new"
    /\ pc' = "gone"
    /\ out' = << >>
    /\ UNCHANGED << construction, availableTopics, session, broker, chains,
                    phase, disconnects, history >>

\* faulty variant: connect() offering options.allowedTopics as they are
Connect_OffersAllowList(brokerUp, allowedTopics) ==
    /\ pc \in {"new", "gone"}
    /\ UNCHANGED << construction, subscribed, matcher, assigned, assignCalls,
                    position, chains, phase, history >>
    /\ IF ~brokerUp
       THEN /\ disconnect(FALSE)
            /\ availableTopics' = availableTopics
            /\ pc' = "noBroker"
            /\ out' = << SocketDisconnect >>
       ELSE LET topics == IF allowedTopics.given THEN allowedTopics.topics
                          ELSE MetadataTopics
            IN  /\ availableTopics' = topics
                /\ IF topics = {}
                   THEN /\ disconnect(TRUE)
                        /\ pc' = "noTopics"
                        /\ out' = << SocketDisconnect >>
                   ELSE /\ kafkaConsumer' = TRUE
                        /\ pc' = IF pc = "gone" THEN "orphan" ELSE "ready"
                        /\ out' = << EmitReady(topics) >>
                        /\ UNCHANGED << running, closing, disconnects, disconnectCalls >>

\* faulty variant: connect() going on to ready with no topic available
Connect_ReadyWithoutTopics(brokerUp, allowedTopics) ==
    /\ pc \in {"new", "gone"}
    /\ UNCHANGED << construction, subscribed, matcher, assigned, assignCalls,
                    position, chains, phase, history >>
    /\ IF ~brokerUp
       THEN /\ disconnect(FALSE)
            /\ availableTopics' = availableTopics
            /\ pc' = "noBroker"
            /\ out' = << SocketDisconnect >>
       ELSE LET topics == getAvailableTopics(MetadataTopics, allowedTopics)
            IN  /\ availableTopics' = topics
                /\ kafkaConsumer' = TRUE
                /\ pc' = IF pc = "gone" THEN "orphan" ELSE "ready"
                /\ out' = << EmitReady(topics) >>
                /\ UNCHANGED << running, closing, disconnects, disconnectCalls >>

\* connect(), the one place that reads options.allowedTopics: the broker
\* connection fails, or no topic is available, or the handlers are registered
\* and ready is emitted
Connect(brokerUp, allowedTopics) ==
    /\ pc \in {"new", "gone"}
    /\ UNCHANGED << construction, subscribed, matcher, assigned, assignCalls,
                    position, chains, phase, history >>
    /\ IF ~brokerUp
       THEN /\ disconnect(FALSE)
            /\ availableTopics' = availableTopics
            /\ pc' = "noBroker"
            /\ out' = << SocketDisconnect >>
       ELSE LET topics == getAvailableTopics(MetadataTopics, allowedTopics)
            IN  /\ availableTopics' = topics
                /\ IF topics = {}
                   THEN /\ disconnect(TRUE)
                        /\ pc' = "noTopics"
                        /\ out' = << SocketDisconnect >>
                   ELSE /\ kafkaConsumer' = TRUE
                        /\ pc' = IF pc = "gone" THEN "orphan" ELSE "ready"
                        /\ out' = << EmitReady(topics) >>
                        /\ UNCHANGED << running, closing, disconnects, disconnectCalls >>

----------------------------------------------------------------------------
(* The consume promise chains *)

\* a librdkafka worker takes the next record of an assigned partition for the
\* poll of chain ch; the callback of consumeAsync() is queued
KafkaPoll(ch) ==
    /\ ch \in BagToSet(chains)
    /\ ch.st = "poll"
    /\ kafkaConsumer
    /\ \E t \in DOMAIN position :
        /\ position[t] < MaxLog
        /\ chains' = (chains (-) One(ch)) (+) One(Got(ch.kind, Record(t, position[t])))
        /\ position' = [position EXCEPT ![t] = @ + 1]
    /\ out' = << >>
    /\ UNCHANGED << construction, pc, availableTopics, session, kafkaConsumer,
                    assigned, assignCalls, disconnectCalls, phase, disconnects,
                    history >>

\* faulty variant: consume() taking a poll timeout for a real error
innoculous_EofOnly(code) == code = "ERR__PARTITION_EOF"

\* the Kafka errors consume() swallows
innoculous(code) == code \in {"ERR__PARTITION_EOF", "ERR__TIMED_OUT"}

\* payloads the configured deserializer (options.deserializer) turns into a
\* falsy value: 0, false, null or ""
FalsyPayloads == {"zero"}

\* the test `if (message)` of the last then of consume(): a falsy
\* deserialized value counts as no message
found(message) == message.val \notin FalsyPayloads

\* _match: the message if no matcher is set or the matcher accepts it
match(message) ==
    IF matcher = NoMatcher THEN TRUE ELSE matcherAccepts(matcher, message)

\* _match calls the matcher outside any try: what the matcher throws, _match
\* throws
matchThrows(message) ==
    matcher # NoMatcher /\ matcherThrows(matcher, message)

\* a record dropped by consume(), and why
Skip(res, why) == [topic |-> res.topic, offset |-> res.offset, why |-> why]

\* why _match drops a message: the matcher said no, or noted an error
missCause(message) ==
    IF matcherErrors(matcher, message) THEN "matcherError" ELSE "filter"

\* faulty variant: consume() without the _match step
consumeChain_NoMatch(res, payload) ==
    IF res.r = "error"
    THEN IF innoculous(res.code)
         THEN [t |-> "delay", skip |-> {}]
         ELSE [t |-> "rejected", skip |-> {}]
    ELSE LET message == Message(res.topic, res.offset, payload)
         IN  IF deserializerThrows(payload)
             THEN [t |-> "nothing", skip |-> {Skip(res, "DeserializationError")}]
             ELSE IF found(message)
                  THEN [t |-> "message", message |-> message, skip |-> {}]
                  ELSE [t |-> "nothing", skip |-> {Skip(res, "falsy")}]

\* faulty variant: consume() failing on a message the matcher does not accept
consumeChain_MissRejects(res, payload) ==
    IF res.r = "error"
    THEN IF innoculous(res.code)
         THEN [t |-> "delay", skip |-> {}]
         ELSE [t |-> "rejected", skip |-> {}]
    ELSE LET message == Message(res.topic, res.offset, payload)
         IN  IF deserializerThrows(payload)
             THEN [t |-> "nothing", skip |-> {Skip(res, "DeserializationError")}]
             ELSE IF matchThrows(message) THEN [t |-> "rejected", skip |-> {}]
             ELSE IF match(message)
                  THEN IF found(message)
                       THEN [t |-> "message", message |-> message, skip |-> {}]
                       ELSE [t |-> "nothing", skip |-> {Skip(res, "falsy")}]
             ELSE [t |-> "rejected", skip |-> {Skip(res, missCause(message))}]

\* faulty variant: consume() without the catch of DeserializationError
consumeChain_NoDeserializationCatch(res, payload) ==
    IF res.r = "error"
    THEN IF innoculous(res.code)
         THEN [t |-> "delay", skip |-> {}]
         ELSE [t |-> "rejected", skip |-> {}]
    ELSE LET message == Message(res.topic, res.offset, payload)
         IN  IF deserializerThrows(payload)
             THEN [t |-> "rejected", skip |-> {Skip(res, "DeserializationError")}]
             ELSE IF matchThrows(message) THEN [t |-> "rejected", skip |-> {}]
             ELSE IF match(message)
                  THEN IF found(message)
                       THEN [t |-> "message", message |-> message, skip |-> {}]
                       ELSE [t |-> "nothing", skip |-> {Skip(res, "falsy")}]
             ELSE [t |-> "nothing", skip |-> {Skip(res, missCause(message))}]

\* consume(), from the callback of consumeAsync() with result res down to the
\* last then: a message, nothing (keep looking), a delay, or a rejection
consumeChain(res, payload) ==
    IF res.r = "error"
    THEN IF innoculous(res.code)
         THEN [t |-> "delay", skip |-> {}]
         ELSE [t |-> "rejected", skip |-> {}]
    ELSE LET message == Message(res.topic, res.offset, payload)
         IN  IF deserializerThrows(payload)
             THEN [t |-> "nothing", skip |-> {Skip(res, "DeserializationError")}]
             ELSE IF matchThrows(message) THEN [t |-> "rejected", skip |-> {}]
             ELSE IF match(message)
                  THEN IF found(message)
                       THEN [t |-> "message", message |-> message, skip |-> {}]
                       ELSE [t |-> "nothing", skip |-> {Skip(res, "falsy")}]
             ELSE [t |-> "nothing", skip |-> {Skip(res, missCause(message))}]

\* faulty variant: _loop emitting only while this.running
loopEmit_OnlyWhileRunning(v) == IF running THEN << EmitMessage(v) >> ELSE << >>

\* _loop: what the loop emits for the value consume() resolved with
loopEmit(v) == << EmitMessage(v) >>

\* _loop, called again after the emit: the chains the loop goes on with
loopAgain ==
    IF ~running THEN EmptyBag
    ELSE IF consume = "poll" THEN One(Polling("loop"))
    ELSE EmptyBag

\* faulty variant: a loop that consumes the value and emits nothing
Resolved_LoopSilent(kind, v) ==
    IF kind = "pull"
    THEN [chains |-> EmptyBag, out |-> wrapHandler("consume", TRUE, "none", v)]
    ELSE [chains |-> loopAgain, out |-> << >>]

\* the chain of kind `kind` resolves with value v (<< >> is no value)
Resolved(kind, v) ==
    IF kind = "pull"
    THEN [chains |-> EmptyBag, out |-> wrapHandler("consume", TRUE, "none", v)]
    ELSE [chains |-> loopAgain, out |-> loopEmit(v)]

\* faulty variant: a wrap that reports a rejection as an err event only
Rejected_NoAck(kind, e) ==
    IF kind = "pull"
    THEN [chains |-> EmptyBag, out |-> << EmitErr("consume", e) >>]
    ELSE [chains |-> EmptyBag, out |-> << >>]

\* the chain of kind `kind` rejects with error e: the wrap reports it for a
\* consume event, nothing catches it for the loop
Rejected(kind, e) ==
    IF kind = "pull"
    THEN [chains |-> EmptyBag, out |-> wrapHandler("consume", TRUE, e, << >>)]
    ELSE [chains |-> EmptyBag, out |-> << >>]

\* the last then of consume() found no message: consume() is called again
keepLooking(kind) ==
    IF consume = "poll" THEN [chains |-> One(Polling(kind)), out |-> << >>]
    ELSE IF consume = "undefined" THEN Resolved(kind, << >>)
    ELSE Rejected(kind, consume)

\* the records a sequence of socket calls hands to the client
RECURSIVE Deliveries(_)
Deliveries(o) ==
    IF o = << >> THEN << >>
    ELSE LET h == Head(o)
         IN  (IF h.k \in {"ack", "message"} /\ h.ev \in {"consume", "loop"} /\ h.v # << >>
              THEN << [topic |-> h.v[1].topic, offset |-> h.v[1].offset, how |-> h.k] >>
              ELSE << >>) \o Deliveries(Tail(o))

\* chain ch goes on from the outcome r of consumeChain to its next
\* suspension point, or settles
GoOn(ch, r) ==
    LET next == CASE r.t = "delay"    -> [chains |-> One(Delaying(ch.kind)), out |-> << >>]
                  [] r.t = "rejected" -> Rejected(ch.kind, "KasockiError")
                  [] r.t = "message"  -> Resolved(ch.kind, << r.message >>)
                  [] r.t = "nothing"  -> keepLooking(ch.kind)
    IN  /\ chains' = (chains (-) One(ch)) (+) next.chains
        /\ out' = next.out
        /\ delivered' = delivered \o Deliveries(next.out)
        /\ skipped' = skipped \cup r.skip
        /\ UNCHANGED << construction, pc, availableTopics, session, broker, phase,
                        disconnects >>

\* the poll of chain ch comes back with a Kafka error
ErrorCallback(ch, code) ==
    /\ ch \in BagToSet(chains)
    /\ ch.st = "poll"
    /\ GoOn(ch, consumeChain(KafkaError(code), "none"))

\* the queued callback of chain ch runs with its record, whose payload is
\* what the producer wrote at that offset
RecordCallback(ch, payload) ==
    /\ ch \in BagToSet(chains)
    /\ ch.st = "got"
    /\ GoOn(ch, consumeChain(ch.res, payload))

\* the delay of chain ch elapses: no message yet
DelayCallback(ch) ==
    /\ ch \in BagToSet(chains)
    /\ ch.st = "delay"
    /\ GoOn(ch, [t |-> "nothing", skip |-> {}])

----------------------------------------------------------------------------
Next ==
    \/ \E brokerUp \in BOOLEAN, allowedTopics \in AllowLists : Connect(brokerUp, allowedTopics)
    \/ \E arg \in SubscribeArgs : Subscribe(arg)
    \/ \E filters \in FilterArgs : Filter(filters)
    \/ Consume
    \/ Start
    \/ Stop
    \/ Disconnect
    \/ DisconnectBeforeReady
    \/ \E ch \in BagToSet(chains) : KafkaPoll(ch)
    \/ \E ch \in BagToSet(chains), code \in KafkaErrorCodes : ErrorCallback(ch, code)
    \/ \E ch \in BagToSet(chains), payload \in Payloads : RecordCallback(ch, payload)
    \/ \E ch \in BagToSet(chains) : DelayCallback(ch)

Spec == Init /\ [][Next]_vars

\* connect() is called when the session is made and its promise chain runs
\* to its end: the event loop leaves no pending connect() behind
SpecLive ==
    Spec /\ WF_vars(\E brokerUp \in BOOLEAN, allowedTopics \in AllowLists :
                        Connect(brokerUp, allowedTopics))

----------------------------------------------------------------------------
(* The handler wrap on its own: _wrapHandler applied to every socket event, *)
(* with and without an ack callback, and to every way a handler can end     *)

\* the socket events connect() registers a wrapped handler for
SocketEvents == {"subscribe", "filter", "consume", "start", "stop", "disconnect"}

\* KasockiError and its subclasses
KasockiErrors ==
    { "KasockiError", "InvalidAssignmentError", "TopicNotAvailableError",
      "NotSubscribedError", "AlreadySubscribedError", "AlreadyStartedError",
      "AlreadyClosingError", "InvalidFilterError", "DeserializationError" }

\* what a handler can throw, reject with or return as an Error value: a
\* KasockiError, or an error of another class
HandlerErrors == KasockiErrors \cup {"Error"}

\* what a handler can return or resolve with: undefined, the assignments,
\* the filters, a message
HandlerResults ==
    { << >>, << Assignment("t1", 0, -1) >>, << ValFilter("a") >>,
      << Message("t1", 0, "a") >> }

\* the ways a handler ends
HandlerOutcomes ==
    [how : {"returns", "resolves"}, e : {"none"}, v : HandlerResults]
        \cup [how : {"throws", "rejects", "returnsError"}, e : HandlerErrors, v : {<< >>}]

\* the promise _wrapHandler makes of the handler's call: rejected when the
\* handler throws, returns an Error or returns a promise that rejects, else
\* resolved with the value
handlerPromise(o) ==
    IF o.how \in {"throws", "rejects", "returnsError"}
    THEN [err |-> o.e, v |-> << >>]
    ELSE [err |-> "none", v |-> o.v]

\* _error: the error as serialized for the client, a KasockiError always
error(e) == IF e \in KasockiErrors THEN e ELSE "KasockiError"

\* the wrapped handler of event ev is called with or without an ack callback
\* and the handler ends as o
WrapCall(ev, cb, o) ==
    /\ LET p == handlerPromise(o)
       IN  out' = IF p.err = "none"
                  THEN wrapHandler(ev, cb, "none", p.v)
                  ELSE wrapHandler(ev, cb, error(p.err), << >>)
    /\ UNCHANGED << construction, pc, availableTopics, session, broker, chains, phase,
                    disconnects, history >>

NextWrap ==
    \E ev \in SocketEvents, cb \in BOOLEAN, o \in HandlerOutcomes : WrapCall(ev, cb, o)

SpecWrap == Init /\ [][NextWrap]_vars

----------------------------------------------------------------------------
(* The errors sent to a client on their own: every error a handler can end  *)
(* with, for every socket event and either socket, as _error prepares it    *)
(* and the wrap sends it                                                    *)

\* what a handler throws or rejects with: an Error of some class with its
\* stack, or a string
ThrownErrors ==
    [class : HandlerErrors, stack : {TRUE}] \cup { [class |-> "String", stack |-> FALSE] }

\* faulty variant: _error without the delete of the stack
errorSent_StackKept(e, socketEvent) ==
    LET k == IF e.class \in KasockiErrors THEN e
             ELSE [class |-> "KasockiError", stack |-> TRUE]
    IN  [name |-> k.class, socketEvent |-> socketEvent, socket |-> name,
         stack |-> k.stack]

\* _error: e made a KasockiError unless it is one, given the event's name
\* and the socket's, its stack deleted
errorSent(e, socketEvent) ==
    LET k == IF e.class \in KasockiErrors THEN e
             ELSE [class |-> "KasockiError", stack |-> TRUE]
    IN  [name |-> k.class, socketEvent |-> socketEvent, socket |-> name,
         stack |-> FALSE]

\* the error e as the ack callback of event ev, or the err event, carries it
SentInAck(ev, e) ==
    [k |-> "ack", ev |-> ev, e |-> e.name, v |-> << >>,
     socket |-> e.socket, socketEvent |-> e.socketEvent, stack |-> e.stack]
SentAsErr(ev, e) ==
    [k |-> "err", ev |-> ev, e |-> e.name, v |-> << >>,
     socket |-> e.socket, socketEvent |-> e.socketEvent, stack |-> e.stack]

\* the wrapped handler of event ev, called with or without an ack callback,
\* ends with error e: the catch of the wrap
WrapCatch(ev, cb, e) ==
    /\ pc = "ready"
    /\ LET sent == errorSent(e, ev)
       IN  out' = IF cb THEN << SentInAck(ev, sent), SentAsErr(ev, sent) >>
                  ELSE << SentAsErr(ev, sent) >>
    /\ UNCHANGED << construction, pc, availableTopics, session, broker, chains,
                    phase, disconnects, history >>

\* a session of either socket with its handlers registered
InitError ==
    /\ \E socketId \in SocketIds :
          /\ Fresh(socketId, NoKafkaConfig)
          /\ kafkaConfig = mergeKafkaConfig(socketId, NoKafkaConfig)
    /\ pc = "ready"

NextError ==
    \E ev \in SocketEvents, cb \in BOOLEAN, e \in ThrownErrors : WrapCatch(ev, cb, e)

SpecError == InitError /\ [][NextError]_vars

----------------------------------------------------------------------------
(* Sessions of a Kasocki with a user-supplied deserializer: one assigned    *)
(* partition whose records deserialize to an object, to a falsy value, or   *)
(* not at all; no filter is set                                             *)

NextFalsy ==
    \/ Connect(TRUE, NoAllowList)
    \/ Subscribe([kind |-> "array", items |-> << Tuple("t1", 0, 0) >>])
    \/ Consume
    \/ Start
    \/ Stop
    \/ \E ch \in BagToSet(chains) : KafkaPoll(ch)
    \/ \E ch \in BagToSet(chains), payload \in Payloads \cup FalsyPayloads :
          RecordCallback(ch, payload)

SpecFalsy == Init /\ [][NextFalsy]_vars

----------------------------------------------------------------------------
(* Pull sessions to their end: consume events on one assigned partition,    *)
(* with a user-supplied deserializer and no filter, up to the disconnect    *)

\* a poll that is outstanding comes back, with a record or with an error
PollReturns ==
    \E ch \in BagToSet(chains) :
        \/ KafkaPoll(ch)
        \/ \E code \in KafkaErrorCodes : ErrorCallback(ch, code)

\* a queued callback of consumeAsync() runs
CallbackRuns ==
    \E ch \in BagToSet(chains), payload \in Payloads \cup FalsyPayloads :
        RecordCallback(ch, payload)

\* a retry delay elapses
DelayElapses == \E ch \in BagToSet(chains) : DelayCallback(ch)

NextPull ==
    \/ Connect(TRUE, NoAllowList)
    \/ Subscribe([kind |-> "array", items |-> << Tuple("t1", 0, 0) >>])
    \/ Consume
    \/ Disconnect
    \/ PollReturns
    \/ CallbackRuns
    \/ DelayElapses

\* the event loop runs every callback that is due: librdkafka calls back for
\* every consumeAsync() (a poll is not interrupted, it ends with a record, a
\* timeout or an error), a queued callback runs, a timer of P.delay fires
SpecPullLive ==
    /\ Init /\ [][NextPull]_vars
    /\ WF_vars(PollReturns)
    /\ WF_vars(CallbackRuns)
    /\ WF_vars(DelayElapses)

----------------------------------------------------------------------------
(* The metric of the wrap on its own: the wrapped handler of every socket   *)
(* event, ending in every way, in sessions with and without a statsd client *)

\* options.statsd: absent, an object without an increment function, a
\* statsd client
StatsdOptions == {"none", "noIncrement", "client"}

\* a call of a function of the statsd client, with its receiver (this) and
\* its arguments
StatsdCall(method, receiver, args) ==
    [k |-> "statsd", method |-> method, receiver |-> receiver, args |-> args]

\* _metric: a string is made a one-element array; if this.statsd is an
\* object with the method, the method is called through Function.call with
\* that array as its only argument, which makes the array the receiver of
\* the call and leaves the call without arguments
metric(method, key, statsd) ==
    LET statsdArgs == << key >>
    IN  IF statsd = "client"
        THEN << StatsdCall(method, statsdArgs, << >>) >>
        ELSE << >>

\* the wrapped handler of event ev is called in a session whose
\* options.statsd is statsd, and the handler ends as o
MeteredCall(ev, cb, o, statsd) ==
    /\ pc = "ready"
    /\ LET p == handlerPromise(o)
       IN  out' = metric("increment", "socketio.event." \o ev, statsd)
                    \o (IF p.err = "none"
                        THEN wrapHandler(ev, cb, "none", p.v)
                        ELSE wrapHandler(ev, cb, error(p.err), << >>))
    /\ UNCHANGED << construction, pc, availableTopics, session, broker, chains,
                    phase, disconnects, history >>

NextMetric ==
    \E ev \in SocketEvents, cb \in BOOLEAN, o \in HandlerOutcomes,
       statsd \in StatsdOptions : MeteredCall(ev, cb, o, statsd)

SpecMetric == InitError /\ [][NextMetric]_vars

----------------------------------------------------------------------------
(* The constructor on its own: a session made for either socket with every  *)
(* options.kafkaConfig                                                      *)

InitConstructor ==
    /\ \E socketId \in SocketIds, userConfig \in UserKafkaConfigs :
          Fresh(socketId, userConfig)
    /\ kafkaConfig = NoKafkaConfig
    /\ pc = "constructing"

\* the constructor reads options.matcherFactory from its argument, not from
\* this.options: a TypeError when no options object was passed
constructorThrows(optionsGiven) == ~optionsGiven

\* the constructor, called with an options object or without: it throws, or
\* goes on to build this.kafkaConfig
Constructor(optionsGiven) ==
    /\ pc = "constructing"
    /\ ~optionsGiven => options = NoKafkaConfig
    /\ IF constructorThrows(optionsGiven)
       THEN /\ pc' = "threw"
            /\ kafkaConfig' = kafkaConfig
       ELSE /\ pc' = "new"
            /\ kafkaConfig' = mergeKafkaConfig(name, options)
    /\ UNCHANGED << name, options, availableTopics, session, broker, chains,
                    phase, disconnects, history, out >>

NextConstructor == \E optionsGiven \in BOOLEAN : Constructor(optionsGiven)

SpecConstructor == InitConstructor /\ [][NextConstructor]_vars

----------------------------------------------------------------------------
(* Filtering on its own: a session that connects, subscribes to one topic   *)
(* from its first offset and consumes, by consume events and by start, with *)
(* every kind of filter argument and with records on which a matcher meets  *)
(* a runtime error                                                          *)

NextFilter ==
    \/ Connect(TRUE, NoAllowList)
    \/ Subscribe([kind |-> "array", items |-> << Tuple("t1", 0, 0) >>])
    \/ \E filters \in FilterSpecs : Filter(filters)
    \/ Consume
    \/ Start
    \/ \E ch \in BagToSet(chains) : KafkaPoll(ch)
    \/ \E ch \in BagToSet(chains), payload \in Payloads \cup AnomalousPayloads :
          RecordCallback(ch, payload)

SpecFilter == Init /\ [][NextFilter]_vars

----------------------------------------------------------------------------
(* Vocabulary of the properties *)

\* the step is a handled socket event of the given kind
SubscribeEvent == \E arg \in SubscribeArgs : Subscribe(arg)
FilterEvent    == \E filters \in FilterArgs : Filter(filters)
HandlerEvent   == SubscribeEvent \/ FilterEvent \/ Consume \/ Start \/ Stop

\* the first socket call of the step is for event ev: so it is of every
\* handled subscribe, filter, start and stop, and of every consume that does
\* not poll, all of which the wrap answers in the turn of the event, and of
\* no other step
Answers(ev) == out' # << >> /\ out'[1].ev = ev

\* the step makes no socket call, or its calls are for consume or for the
\* loop: so it is of every step of a consume chain
ChainStep == out' = << >> \/ out'[1].ev \in {"consume", "loop"}

\* what the wrap hands to the socket when the handler of ev fails with e
Failure(ev, e) == << AckError(ev, e), EmitErr(ev, e) >>

\* a sequence of socket calls reports an error (by an ack or an err event)
ReportsError(o) == \E i \in 1..Len(o) : o[i].e # "none"

\* a sequence of socket calls holds a message event
EmitsMessage(o) == \E i \in 1..Len(o) : o[i].k = "message"

\* the topics a subscribe argument asks for, whatever its form
RequestedTopics(arg) ==
    IF arg.kind = "string" THEN {arg.topic}
    ELSE IF arg.kind = "array" THEN {arg.items[i].topic : i \in 1..Len(arg.items)}
    ELSE {}

\* the argument is in topic-name form (a bare string counts) or in tuple form
NameOrTupleForm(arg) ==
    \/ arg.kind = "string"
    \/ /\ arg.kind = "array"
       /\ Len(arg.items) > 0
       /\ \/ \A i \in 1..Len(arg.items) : arg.items[i].kind = "name"
          \/ \A i \in 1..Len(arg.items) : arg.items[i].kind = "tuple"

AsksUnavailable(arg) ==
    NameOrTupleForm(arg) /\ \E t \in RequestedTopics(arg) : t \notin availableTopics

\* the argument passes subscribe's validation
Valid(arg) == arg.kind = "string" \/ validateAssignments(arg)

\* the polls of the session that are outstanding: consumeAsync() was called
\* and its callback has not run
OutstandingPolls == BagCardinality([ch \in { c \in BagToSet(chains) : c.st \in {"poll", "got"} } |-> chains[ch]])

----------------------------------------------------------------------------
(* C1: at most one subscribe *)

\* C1 as stated: once a subscribe has succeeded, every later subscribe event
\* fails with AlreadySubscribed, assign is not called again and the
\* assignment of the first subscribe stays in effect.
C1_EveryLaterSubscribeFails ==
    [][ (subscribed /\ SubscribeEvent) =>
            /\ out' = Failure("subscribe", "AlreadySubscribedError")
            /\ assignCalls' = assignCalls
            /\ assigned' = assigned ]_vars

\* C1 as amended: once a subscribe has succeeded, a later subscribe event
\* fails with AlreadySubscribed while the session is not closing and is
\* dropped without an error once it is closing; in both cases assign is not
\* called again (it was called exactly once) and the assignment and the
\* broker's positions are those the first subscribe installed.
C1_LaterSubscribeRefused ==
    [][ (subscribed /\ Answers("subscribe") /\ SubscribeEvent) =>
            /\ out' = IF closing THEN << Ack("subscribe", << >>) >>
                      ELSE Failure("subscribe", "AlreadySubscribedError")
            /\ assignCalls = 1 /\ assignCalls' = 1
            /\ assigned' = assigned
            /\ position' = position
            /\ subscribed' ]_vars

\* a second subscribe was refused in a subscribed, open session
C1_Witness ==
    /\ subscribed /\ ~closing
    /\ assignCalls = 1
    /\ out = Failure("subscribe", "AlreadySubscribedError")

----------------------------------------------------------------------------
(* C2: topic gating *)

\* C2 as stated: every subscribe request, in topic-name or tuple form, that
\* asks for a topic outside availableTopics fails with TopicNotAvailable,
\* assign is not called and subscribed stays false.
C2_EveryRequestGated ==
    [][ \A arg \in SubscribeArgs :
            (AsksUnavailable(arg) /\ Subscribe(arg)) =>
                /\ out' = Failure("subscribe", "TopicNotAvailableError")
                /\ assignCalls' = assignCalls
                /\ subscribed' = FALSE ]_vars

\* C2 as amended: a subscribe request, in topic-name or tuple form, that asks
\* for a topic outside availableTopics never reaches assign and leaves
\* subscribed as it was; it fails with TopicNotAvailable when it passes
\* validation and the session is neither closing nor subscribed (before
\* that, a closing session drops it, a subscribed one answers
\* AlreadySubscribed, an invalid request fails with InvalidAssignment).
C2_UnavailableTopicGated ==
    [][ Answers("subscribe") =>
          IF closing \/ subscribed
          \* whatever the request
          THEN SubscribeEvent =>
                /\ assignCalls' = assignCalls
                /\ assigned' = assigned
                /\ subscribed' = subscribed
                /\ out' = IF closing THEN << Ack("subscribe", << >>) >>
                          ELSE Failure("subscribe", "AlreadySubscribedError")
          ELSE \A arg \in SubscribeArgs :
                (AsksUnavailable(arg) /\ Subscribe(arg)) =>
                    /\ assignCalls' = assignCalls
                    /\ assigned' = assigned
                    /\ subscribed' = subscribed
                    /\ out' = IF ~Valid(arg)
                              THEN Failure("subscribe", "InvalidAssignmentError")
                              ELSE Failure("subscribe", "TopicNotAvailableError") ]_vars

\* a request was refused for an unavailable topic, nothing was assigned
C2_Witness ==
    /\ out = Failure("subscribe", "TopicNotAvailableError")
    /\ ~subscribed /\ ~closing
    /\ assignCalls = 0

----------------------------------------------------------------------------
(* C3: one poll at a time *)

\* C3 as stated: in every reachable state a session has at most one broker
\* poll outstanding.
C3_AtMostOnePoll == OutstandingPolls <= 1

----------------------------------------------------------------------------
(* C4: no message after stop *)

\* C4 as stated: after a stop handled in a running session, and until the
\* next start, no message event is emitted to the socket.
C4_NoMessageAfterStop == phase = "stopped" => ~EmitsMessage(out)

----------------------------------------------------------------------------
(* C5: the push stream over start, stop, start *)

\* the offsets of topic t the broker has handed out so far
Fetched(t) == StartPositions(assigned)[t] .. (position[t] - 1)

\* record (t, o) is with a chain whose callback has not run yet
InFlight(t, o) ==
    \E ch \in BagToSet(chains) : ch.st = "got" /\ ch.res = Record(t, o)

\* the places of record (t, o) in the delivery history
DeliveriesOf(t, o) ==
    { i \in 1..Len(delivered) : delivered[i].topic = t /\ delivered[i].offset = o }

\* record (t, o) was dropped, for whatever cause
Skipped(t, o) == \E s \in skipped : s.topic = t /\ s.offset = o

\* every record handed out by the broker is in flight, or was dropped for
\* cause, or was delivered once, and never two of these; nothing else was
\* delivered
ExactlyOnce ==
    /\ \A t \in DOMAIN position : \A o \in Fetched(t) :
        \/ InFlight(t, o) /\ ~Skipped(t, o) /\ DeliveriesOf(t, o) = {}
        \/ ~InFlight(t, o) /\ Skipped(t, o) /\ DeliveriesOf(t, o) = {}
        \/ ~InFlight(t, o) /\ ~Skipped(t, o) /\ Cardinality(DeliveriesOf(t, o)) = 1
    /\ \A i \in 1..Len(delivered) :
        /\ delivered[i].topic \in DOMAIN position
        /\ delivered[i].offset \in Fetched(delivered[i].topic)

\* a record that came back to a loop, deserializes and matches is emitted as
\* a message event by that very step, whether the loop is running or stopped
LoopEmitsItsRecord ==
    \A ch \in BagToSet(chains), payload \in Payloads :
        LET message == Message(ch.res.topic, ch.res.offset, payload)
        IN  (/\ ch.kind = "loop"
             /\ RecordCallback(ch, payload)
             /\ ~deserializerThrows(payload)
             /\ match(message))
            => /\ out' = << EmitMessage(<< message >>) >>
               /\ delivered' = Append(delivered,
                    [topic |-> message.topic, offset |-> message.offset, how |-> "message"])

\* C5: over start, stop, start the push stream loses and repeats nothing:
\* every record the broker hands out that deserializes and matches is
\* emitted exactly once, the others are skipped for cause.
C5_PushStreamExactlyOnce ==
    []ExactlyOnce /\ [][ChainStep => LoopEmitsItsRecord]_vars

\* after start, stop, start: the resumed stream has emitted every record of
\* the partition from offset 0 on, as message events
C5_Witness ==
    /\ phase = "resumed"
    /\ assigned = << Assignment("t1", 0, 0) >>
    /\ Len(delivered) = MaxLog
    /\ \A i \in 1..Len(delivered) : delivered[i].how = "message"
    /\ EmitsMessage(out)

----------------------------------------------------------------------------
(* C6: order per partition *)

\* C6 as stated: the records of one partition reach the client (by consume
\* acks or message events) in strictly increasing offset order.
C6_StrictlyIncreasing ==
    \A i, j \in 1..Len(delivered) :
        (i < j /\ delivered[i].topic = delivered[j].topic)
            => delivered[i].offset < delivered[j].offset

----------------------------------------------------------------------------
(* C7: nothing delivered once closing *)

\* C7 as stated: once closing is true no step hands a record to the client,
\* neither in a message event nor in a consume ack.
C7_NothingDeliveredOnceClosing == closing => Deliveries(out) = << >>

----------------------------------------------------------------------------
(* C8: one broker disconnect *)

\* connect() got a KafkaConsumer
HandleCreated == pc \in {"ready", "noTopics", "orphan"}

\* C8: after one or more invocations of disconnect() on a session whose
\* KafkaConsumer was created, KafkaConsumer.disconnect() was called exactly
\* once and the session holds no handle.
C8_BrokerDisconnectedOnce ==
    /\ (HandleCreated /\ disconnects # "never") => (disconnectCalls = 1 /\ ~kafkaConsumer)
    /\ (disconnects = "never" \/ ~HandleCreated) => disconnectCalls = 0

\* disconnect() was invoked again on a closing session
C8_Witness ==
    /\ pc = "ready"
    /\ disconnects = "again"
    /\ disconnectCalls = 1

----------------------------------------------------------------------------
(* C9: closing is terminal *)

\* C9 as stated: closing never goes back to false, and in a closing session a
\* handled subscribe, filter, consume, start or stop changes neither
\* subscribed, running nor the matcher and makes no broker call.
C9_ClosingFreezesSession ==
    [][ /\ closing => closing'
        /\ (closing /\ HandlerEvent) =>
              /\ UNCHANGED << subscribed, running, matcher >>
              /\ UNCHANGED << assignCalls, disconnectCalls, chains, position >> ]_vars

----------------------------------------------------------------------------
(* C10: handlers of a closed session *)

----------------------------------------------------------------------------
(* C11: running implies subscribed *)

\* C11: in every reachable state of a session, running = true implies
\* subscribed = true.
C11_RunningImpliesSubscribed == running => subscribed

\* the push loop is running on a subscribed session
C11_Witness ==
    /\ running /\ subscribed
    /\ phase = "started"
    /\ out = << Ack("start", << >>) >>

----------------------------------------------------------------------------
(* C12: subscribed is set once, for good *)

\* C12: subscribed never goes from true to false, whatever the step (stop,
\* filter, disconnect, a failed subscribe, ...); it goes from false to true
\* only in a subscribe event of an open session whose request passes
\* validation and topic gating and whose assign() call returned: that call
\* was made, the assignment is installed and acked.
C12_SubscribedSetOnce ==
    [][ /\ subscribed => subscribed'
        /\ (~subscribed /\ subscribed') =>
              \E arg \in SubscribeArgs :
                /\ Subscribe(arg)
                /\ ~closing
                /\ Valid(arg)
                /\ RequestedTopics(arg) \subseteq availableTopics
                /\ assignCalls' = assignCalls + 1
                /\ assigned' # << >>
                /\ position' = StartPositions(assigned')
                /\ out' = << Ack("subscribe", assigned') >> ]_vars

\* a subscribe has just succeeded: its assignment is installed and acked
C12_Witness ==
    /\ subscribed
    /\ assignCalls = 1
    /\ assigned # << >>
    /\ out = << Ack("subscribe", assigned) >>

----------------------------------------------------------------------------
(* C13: records that fail deserialization *)

\* the step is the callback of chain ch with a record whose payload the
\* deserializer throws on
BadRecordCallback(ch) ==
    \E payload \in Payloads : deserializerThrows(payload) /\ RecordCallback(ch, payload)

\* what a bad record never does: it is not handed to the client by the step
\* that drops it, the step reports no error by ack or err event, and the
\* record is noted as dropped for a DeserializationError
BadRecordDropped(ch) ==
    /\ Deliveries(out') = << >>
    /\ delivered' = delivered
    /\ ~ReportsError(out')
    /\ skipped' = skipped \cup {Skip(ch.res, "DeserializationError")}

\* the consume() of chain ch goes on: it has not settled and polls again
ConsumeGoesOn(ch) ==
    /\ out' = << >>
    /\ chains' = (chains (-) One(ch)) (+) One(Polling(ch.kind))

\* a record that deserializes and matches completes the consume event that
\* polled it: its ack carries the record
PullReturnsItsRecord ==
    \A ch \in BagToSet(chains), payload \in Payloads :
        LET message == Message(ch.res.topic, ch.res.offset, payload)
        IN  (/\ ch.kind = "pull"
             /\ RecordCallback(ch, payload)
             /\ ~deserializerThrows(payload)
             /\ match(message))
            => out' = << Ack("consume", << message >>) >>

\* no record dropped for a DeserializationError is ever in the delivery history
BadRecordsNeverDelivered ==
    \A s \in skipped :
        s.why = "DeserializationError" => DeliveriesOf(s.topic, s.offset) = {}

\* C13 as stated: a record whose deserialization fails is never delivered and
\* does not fail the consume call; the same consume goes on with the next
\* record, and returns the first later record that deserializes and matches.
C13_BadRecordSkippedConsumeGoesOn ==
    [][ /\ \A ch \in BagToSet(chains) :
            BadRecordCallback(ch) => (BadRecordDropped(ch) /\ ConsumeGoesOn(ch))
        /\ PullReturnsItsRecord
        /\ BadRecordsNeverDelivered' ]_vars

\* C13 as amended: a record whose deserialization fails is never delivered
\* and does not fail the consume call; while the session is not closing the
\* same consume goes on with the next record and returns the first later
\* record that deserializes and matches; once the session is closing the
\* consume completes instead, with no value (an ack without value for a
\* consume event, a message event without value for the loop).
C13_BadRecordSkipped ==
    /\ []BadRecordsNeverDelivered
    /\ [][ ChainStep =>
            /\ \A ch \in BagToSet(chains) :
                BadRecordCallback(ch) =>
                    /\ BadRecordDropped(ch)
                    /\ ~closing => ConsumeGoesOn(ch)
                    /\ closing =>
                          /\ chains' = chains (-) One(ch)
                          /\ out' = IF ch.kind = "pull"
                                    THEN << Ack("consume", << >>) >>
                                    ELSE << EmitMessage(<< >>) >>
            /\ PullReturnsItsRecord ]_vars

\* a consume event dropped the record at offset 0 for a DeserializationError
\* and was acked with the record at offset 1
C13_Witness ==
    /\ Skip(Record("t1", 0), "DeserializationError") \in skipped
    /\ \E v \in Payloads : out = << Ack("consume", << Message("t1", 1, v) >>) >>
    /\ Len(delivered) = 1

----------------------------------------------------------------------------
(* C14: pull and push deliver the same messages *)

\* the socket call by which a chain of the given kind hands over a message
Handover(kind, message) ==
    IF kind = "pull" THEN Ack("consume", << message >>) ELSE EmitMessage(<< message >>)

\* whether a record is delivered or dropped, and the message delivered, is
\* decided by its payload and the filter alone: the callback of a consume
\* event and the callback of the loop do the same with the same record, the
\* one in its ack and the other in a message event
SameDecisionInBothModes ==
    \A ch \in BagToSet(chains), payload \in Payloads :
        RecordCallback(ch, payload) =>
            LET message == Message(ch.res.topic, ch.res.offset, payload)
            IN  IF ~deserializerThrows(payload) /\ match(message)
                THEN /\ out' = << Handover(ch.kind, message) >>
                     /\ delivered' = Append(delivered,
                            [topic |-> message.topic, offset |-> message.offset,
                             how |-> Handover(ch.kind, message).k])
                     /\ skipped' = skipped
                ELSE /\ delivered' = delivered
                     /\ Skipped(ch.res.topic, ch.res.offset)'

\* the broker hands the next record of the window to whichever chain polls,
\* of a consume event or of the loop
SameWindowInBothModes ==
    \A ch \in BagToSet(chains) :
        KafkaPoll(ch) =>
            \E t \in DOMAIN position :
                /\ position' = [position EXCEPT ![t] = @ + 1]
                /\ chains' = (chains (-) One(ch)) (+) One(Got(ch.kind, Record(t, position[t])))

----------------------------------------------------------------------------
(* C15: hard broker errors in push mode *)

\* the transient broker conditions: end of a partition's log, poll timeout
TransientCodes == {"ERR__PARTITION_EOF", "ERR__TIMED_OUT"}

\* the step is the callback of chain ch's poll with a hard Kafka error: any
\* but the transient ones
HardErrorCallback(ch) ==
    \E code \in KafkaErrorCodes \ TransientCodes : ErrorCallback(ch, code)

\* a sequence of socket calls holds an err event
EmitsErr(o) == \E i \in 1..Len(o) : o[i].k = "err"

\* C15 as stated: a hard broker error raised by a poll of the push loop is
\* surfaced to the client: the step that handles it emits an err event.
C15_LoopErrorSurfaced ==
    [][ \A ch \in BagToSet(chains) :
            (ch.kind = "loop" /\ HardErrorCallback(ch)) => EmitsErr(out') ]_vars

----------------------------------------------------------------------------
(* C16: hard broker errors in pull mode *)

\* C16: a hard broker error raised by the poll of a consume event fails that
\* event: its ack carries the error and an err event carries the same error;
\* subscribed, running, closing and the matcher are unchanged, the broker
\* handle and the assignment are kept, the failed chain is gone and nothing
\* is delivered; in an open session a later consume polls again.
C16_PullErrorReported ==
    [][ \A ch \in BagToSet(chains) :
            (ch.kind = "pull" /\ HardErrorCallback(ch)) =>
                /\ out' = Failure("consume", "KasockiError")
                /\ UNCHANGED << session, broker, history >>
                /\ chains' = chains (-) One(ch)
                /\ ~closing => (~closing' /\ consume' = "poll") ]_vars

\* a consume event of an open, subscribed session has just failed with a
\* hard broker error
C16_Witness ==
    /\ out = Failure("consume", "KasockiError")
    /\ subscribed /\ ~closing /\ kafkaConsumer
    /\ consume = "poll"

----------------------------------------------------------------------------
(* C17: transient broker conditions *)

\* the step is the callback of chain ch's poll with an end-of-log or a
\* timeout
TransientCallback(ch) ==
    \E code \in TransientCodes : ErrorCallback(ch, code)

\* a sequence of socket calls completes a consume event without a value
AcksNothing(o) ==
    \E i \in 1..Len(o) : o[i] = Ack("consume", << >>)

\* C17: an end-of-log or a poll timeout never reaches the client: the step
\* that handles it makes no socket call and puts the chain to wait; when the
\* wait is over the chain polls again, without a socket call, unless the
\* session is closing, and then it completes with no value; so however many
\* such conditions follow one another no ack fails and no err event is
\* emitted. A consume event is acked without a value only in a closing
\* session, and otherwise with a message that the filter accepts.
C17_TransientAbsorbed ==
    [][ /\ ChainStep => \A ch \in BagToSet(chains) :
            /\ TransientCallback(ch) =>
                  /\ out' = << >>
                  /\ chains' = (chains (-) One(ch)) (+) One(Delaying(ch.kind))
                  /\ UNCHANGED << session, broker, history >>
            /\ DelayCallback(ch) =>
                  /\ ~ReportsError(out')
                  /\ UNCHANGED << session, broker, history >>
                  /\ ~closing => /\ out' = << >>
                                 /\ chains' = (chains (-) One(ch)) (+) One(Polling(ch.kind))
                  /\ closing => /\ Deliveries(out') = << >>
                                /\ chains' = chains (-) One(ch)
        /\ AcksNothing(out') => closing'
        /\ \A i \in 1..Len(out') :
              (out'[i].k = "ack" /\ out'[i].ev = "consume" /\ out'[i].v # << >>)
                  => (out'[i].e = "none" /\ match(out'[i].v[1])) ]_vars

\* every record of the partition was delivered and the next consume event
\* met the end of the log: its chain waits to poll again, the client has
\* heard nothing
C17_Witness ==
    /\ Len(delivered) = MaxLog
    /\ chains = One(Delaying("pull"))
    /\ ~closing
    /\ out = << >>

----------------------------------------------------------------------------
(* C18: the handler wrap *)

\* the places of the ack callback's invocations, and of the err events, in a
\* sequence of socket calls
AckCalls(o) == { i \in 1..Len(o) : o[i].k = "ack" }
ErrEmits(o) == { i \in 1..Len(o) : o[i].k = "err" }

\* C18: for every socket event handled by a wrapped handler, the ack
\* callback, when one was supplied, is invoked exactly once: with (no error,
\* the result) when the handler returns or resolves, with (the error, no
\* value) when it throws, rejects or returns an Error; on every failure
\* exactly one err event carrying the same error is emitted, with or without
\* an ack callback; nothing else is sent, and no err event on success.
C18_AckOnceErrAlways ==
    [][ \A ev \in SocketEvents, cb \in BOOLEAN, o \in HandlerOutcomes :
            WrapCall(ev, cb, o) =>
                /\ Cardinality(AckCalls(out')) = IF cb THEN 1 ELSE 0
                /\ Cardinality(AckCalls(out') \cup ErrEmits(out')) = Len(out')
                /\ o.how \in {"returns", "resolves"} =>
                      /\ ErrEmits(out') = {}
                      /\ \A i \in AckCalls(out') : out'[i] = Ack(ev, o.v)
                /\ o.how \in {"throws", "rejects", "returnsError"} =>
                      /\ Cardinality(ErrEmits(out')) = 1
                      /\ \A i \in AckCalls(out'), j \in ErrEmits(out') :
                            /\ i < j
                            /\ out'[i].e = out'[j].e
                            /\ out'[i].v = << >>
                      /\ \A j \in ErrEmits(out') :
                            /\ out'[j].ev = ev
                            /\ out'[j].e # "none"
                            /\ o.e \in KasockiErrors => out'[j].e = o.e ]_vars

\* a handler failed on an event sent without an ack callback: the err event
\* is all the client gets
C18_Witness ==
    out = << EmitErr("consume", "NotSubscribedError") >>

----------------------------------------------------------------------------
(* C19: consume and start before subscribe *)

\* C19: in a session that is ready, not subscribed and not closing, every
\* consume and every start fails with NotSubscribed, by its ack and as an err
\* event; no poll is issued and no loop is started (no chain comes to be, no
\* broker call is made), and subscribed and running stay false.
C19_NotSubscribedRefused ==
    [][ (pc = "ready" /\ ~subscribed /\ ~closing) =>
          /\ Consume => /\ out' = Failure("consume", "NotSubscribedError")
                        /\ chains' = chains /\ chains = EmptyBag
                        /\ UNCHANGED << broker, matcher, closing, phase >>
                        /\ ~subscribed' /\ ~running'
          /\ Start => /\ out' = Failure("start", "NotSubscribedError")
                      /\ chains' = chains /\ chains = EmptyBag
                      /\ UNCHANGED << broker, matcher, closing, phase >>
                      /\ ~subscribed' /\ ~running' ]_vars

\* a start was refused in a ready session that has not subscribed
C19_Witness ==
    /\ pc = "ready" /\ ~subscribed /\ ~closing /\ ~running
    /\ chains = EmptyBag
    /\ out = Failure("start", "NotSubscribedError")

----------------------------------------------------------------------------
(* C20: start while running *)

\* C20: a start event handled while running is true fails with
\* AlreadyStarted, by its ack and as an err event, leaves running true and
\* begins no second loop: the chains, the session and the broker are as they
\* were.
C20_SecondStartRefused ==
    [][ (running /\ Start) =>
          /\ out' = Failure("start", "AlreadyStartedError")
          /\ running'
          /\ chains' = chains
          /\ UNCHANGED << session, broker, phase, history >> ]_vars

\* a start was refused in a running session, whose one loop is polling
C20_Witness ==
    /\ running
    /\ out = Failure("start", "AlreadyStartedError")
    /\ chains = One(Polling("loop"))

----------------------------------------------------------------------------
(* C21: invalid assignment requests *)

\* a subscribe with a valid request for available topics would get through
\* validation and the topic check
ValidSubscribeAccepted ==
    \A a \in SubscribeArgs :
        (Valid(a) /\ RequestedTopics(a) \subseteq availableTopics)
            => (~subscribeRefused /\ subscribeRequest(a).err = "none")

\* C21 as stated: a subscribe whose argument is not a valid assignment
\* request fails with InvalidAssignment, whatever its topics, makes no assign
\* call and leaves subscribed false.
C21_InvalidRequestFails ==
    [][ \A arg \in SubscribeArgs :
            (~Valid(arg) /\ Subscribe(arg)) =>
                /\ out' = Failure("subscribe", "InvalidAssignmentError")
                /\ assignCalls' = assignCalls
                /\ subscribed' = FALSE ]_vars

\* C21 as amended: a subscribe whose argument is not a valid assignment
\* request makes no assign call and changes nothing in the session; in an
\* open session that has not subscribed it fails with InvalidAssignment,
\* whether its topics are available or not, subscribed stays false and a
\* later valid subscribe is still accepted; a closing session drops it
\* without an error, a subscribed one answers AlreadySubscribed.
C21_InvalidRequestRefused ==
    [][ Answers("subscribe") =>
          IF closing \/ subscribed
          \* whatever the request
          THEN SubscribeEvent =>
                /\ UNCHANGED << session, broker, chains, history >>
                /\ out' = IF closing THEN << Ack("subscribe", << >>) >>
                          ELSE Failure("subscribe", "AlreadySubscribedError")
          ELSE \A arg \in SubscribeArgs :
                (~Valid(arg) /\ Subscribe(arg)) =>
                    /\ UNCHANGED << session, broker, chains, history >>
                    /\ out' = Failure("subscribe", "InvalidAssignmentError")
                    /\ ~subscribed' /\ ValidSubscribeAccepted' ]_vars

\* an invalid request was refused in an open session that has not subscribed
C21_Witness ==
    /\ pc = "ready" /\ ~subscribed /\ ~closing
    /\ assignCalls = 0
    /\ out = Failure("subscribe", "InvalidAssignmentError")

----------------------------------------------------------------------------
(* C22: the assignments a subscribe acks *)

\* the partitions of topic t in broker metadata, as a set
PartitionsOf(t) == { MetadataPartitions(t)[i] : i \in 1..Len(MetadataPartitions(t)) }

\* the list holds exactly one {topic, partition, offset: -1} for every
\* partition metadata lists for every topic of the set, and nothing else
OnePerPartitionAtLatest(list, topics) ==
    /\ \A i \in 1..Len(list) :
          /\ list[i].topic \in topics
          /\ list[i].partition \in PartitionsOf(list[i].topic)
          /\ list[i].offset = -1
    /\ \A t \in topics : \A p \in PartitionsOf(t) :
          Cardinality({ i \in 1..Len(list) :
                          list[i].topic = t /\ list[i].partition = p }) = 1

\* the list is the tuple request, item by item
RequestUnchanged(list, items) ==
    /\ Len(list) = Len(items)
    /\ \A i \in 1..Len(items) :
          /\ list[i].topic = items[i].topic
          /\ list[i].partition = items[i].partition
          /\ list[i].offset = items[i].offset

\* C22: a subscribe that succeeds acks the list it gave to assign(): for a
\* request in topic-name form (a bare string is a list of one name) exactly
\* one {topic, partition, offset: -1} per partition that broker metadata
\* lists for each requested topic, for a request in tuple form the request
\* unchanged.
C22_AckIsNormalizedAssignment ==
    [][ (Answers("subscribe") /\ ~subscribed /\ subscribed') =>
          \A arg \in SubscribeArgs :
            Subscribe(arg) =>
                /\ out' = << Ack("subscribe", assigned') >>
                /\ assignCalls' = assignCalls + 1
                /\ IF arg.kind = "string" \/ arg.items[1].kind = "name"
                   THEN OnePerPartitionAtLatest(assigned', RequestedTopics(arg))
                   ELSE RequestUnchanged(assigned', arg.items) ]_vars

\* a subscribe to a topic by name was acked with the topic's two partitions
\* at latest
C22_Witness ==
    /\ subscribed
    /\ assigned = << Assignment("t1", 0, -1), Assignment("t1", 1, -1) >>
    /\ out = << Ack("subscribe", assigned) >>

----------------------------------------------------------------------------
(* C23: a filter that does not compile *)

\* the filter arguments that are not a valid filter map: not a mapping, a
\* nested mapping as value, a malformed regex literal, an unsafe regex
Uncompilable ==
    { FalsyFilter, ScalarFilter, NestedFilter, BadRegexFilter, UnsafeFilter }

\* C23: a filter event whose argument does not compile (not a mapping, a
\* nested mapping as value, a malformed regex literal, an unsafe regex) fails
\* with InvalidFilter and changes nothing: the matcher installed before it
\* decides the later messages and a consume is served as before.
C23_UncompilableFilterRefused ==
    [][ Answers("filter") =>
          \A filters \in Uncompilable :
            Filter(filters) =>
                /\ out' = Failure("filter", "InvalidFilterError")
                /\ matcher' = matcher
                /\ UNCHANGED << session, broker, chains, history >> ]_vars

----------------------------------------------------------------------------
(* C24: resetting the filter *)

\* the record of chain ch is handed to the client as the message with this
\* payload: in the ack of a consume event, as a message event of the loop
HandsOver(ch, payload) ==
    LET message == Message(ch.res.topic, ch.res.offset, payload)
    IN  /\ out' # << >>
        /\ out'[1] = IF ch.kind = "pull" THEN Ack("consume", << message >>)
                     ELSE EmitMessage(<< message >>)
        /\ delivered' # delivered

\* while this.matcher has value m, the record of every callback is handed
\* over unless its payload does not deserialize
MatchAllWhile(m) ==
    (ChainStep /\ matcher = m) =>
        \A ch \in BagToSet(chains) :
          \A payload \in (Payloads \cup AnomalousPayloads) \ {"bad"} :
            RecordCallback(ch, payload) => HandsOver(ch, payload)

\* C24 as stated: a filter event with an empty or absent argument (null,
\* undefined, the empty mapping) removes the matcher and is acked with no
\* value, and from then on every record that deserializes is delivered.
C24_EmptyOrAbsentRemovesMatcher ==
    [][ /\ Answers("filter") =>
              \A filters \in { NullFilter, EmptyFilter } :
                  Filter(filters) => /\ matcher' = NoMatcher
                                     /\ out' = << Ack("filter", << >>) >>
        /\ MatchAllWhile(NoMatcher) ]_vars

\* C24: a filter event with an absent argument (null, undefined) removes
\* the matcher and is acked with no value; one with the empty mapping
\* installs the matcher of the empty mapping and is acked with the empty
\* mapping. After either, and until the next filter event, every record that
\* deserializes is delivered.
C24_FilterReset ==
    [][ /\ Answers("filter") =>
              /\ Filter(NullFilter) => /\ matcher' = NoMatcher
                                       /\ out' = << Ack("filter", << >>) >>
              /\ Filter(EmptyFilter) => /\ matcher' = EmptyFilter
                                        /\ out' = << Ack("filter", << EmptyFilter >>) >>
        /\ MatchAllWhile(NoMatcher)
        /\ MatchAllWhile(EmptyFilter) ]_vars

\* after a filter had dropped a record, the empty mapping was installed and
\* a record the old filter rejects has been acked
C24_Witness ==
    /\ matcher = EmptyFilter
    /\ \E s \in skipped : s.why = "filter"
    /\ out = << Ack("consume", << Message("t1", 1, "b") >>) >>

----------------------------------------------------------------------------
(* C25: a record the matcher rejects *)

\* the callback of chain ch runs with a record that deserializes and that
\* the installed matcher rejects
FilterMissCallback(ch) ==
    \E payload \in Payloads :
        /\ ch.st = "got"
        /\ matcher # NoMatcher
        /\ ~deserializerThrows(payload)
        /\ ~matcherAccepts(matcher, Message(ch.res.topic, ch.res.offset, payload))
        /\ RecordCallback(ch, payload)

\* what a rejected record never does: it is not handed to the client by the
\* step that drops it, the step reports no error, and the record is noted
\* as dropped by the filter
FilterMissDropped(ch) ==
    /\ Deliveries(out') = << >>
    /\ delivered' = delivered
    /\ ~ReportsError(out')
    /\ skipped' = skipped \cup {Skip(ch.res, "filter")}

\* no record dropped by the filter is ever in the delivery history
FilterMissesNeverDelivered ==
    \A s \in skipped : s.why = "filter" => DeliveriesOf(s.topic, s.offset) = {}

\* C25 as stated: with a matcher installed, a record the matcher rejects is
\* never delivered, in a consume ack or as a message event; consume skips
\* it, polls again and returns the first later record the matcher accepts.
C25_RejectedSkippedConsumeGoesOn ==
    [][ /\ ChainStep =>
              /\ \A ch \in BagToSet(chains) :
                    FilterMissCallback(ch) => (FilterMissDropped(ch) /\ ConsumeGoesOn(ch))
              /\ PullReturnsItsRecord
        /\ FilterMissesNeverDelivered' ]_vars

\* C25 as amended: with a matcher installed, a record the matcher rejects is
\* never delivered, in a consume ack or as a message event; while the
\* session is not closing consume skips it, polls again and returns the
\* first later record the matcher accepts; once the session is closing the
\* consume completes instead, with no value.
C25_RejectedSkipped ==
    /\ []FilterMissesNeverDelivered
    /\ [][ ChainStep =>
            /\ \A ch \in BagToSet(chains) :
                FilterMissCallback(ch) =>
                    /\ FilterMissDropped(ch)
                    /\ ~closing => ConsumeGoesOn(ch)
                    /\ closing =>
                          /\ chains' = chains (-) One(ch)
                          /\ out' = IF ch.kind = "pull"
                                    THEN << Ack("consume", << >>) >>
                                    ELSE << EmitMessage(<< >>) >>
            /\ PullReturnsItsRecord ]_vars

\* a consume event dropped the record at offset 0, which the filter
\* rejected, and was acked with the record at offset 1
C25_Witness ==
    /\ matcher = ValFilter("a")
    /\ Skip(Record("t1", 0), "filter") \in skipped
    /\ out = << Ack("consume", << Message("t1", 1, "a") >>) >>

----------------------------------------------------------------------------
(* C26: the matcher is total *)

\* the record of chain ch is dropped as a non-match: nothing is handed to
\* the client, no error is reported, the consume goes on
DroppedAsMiss(ch, why) ==
    /\ Deliveries(out') = << >>
    /\ delivered' = delivered
    /\ ~ReportsError(out')
    /\ skipped' = skipped \cup {Skip(ch.res, why)}

----------------------------------------------------------------------------
(* C27: every socket disconnect closes the session *)

\* the socket of the session has disconnected
SocketDisconnected == pc \in {"gone", "orphan"} \/ disconnects # "never"

\* C27: whatever state the session is in when its socket disconnects, the
\* time before connect() has completed included, the session eventually is
\* closing and the broker handle made for it, before or after, is
\* disconnected.
C27_DisconnectLeadsToClosed ==
    SocketDisconnected ~> (closing /\ ~kafkaConsumer)

----------------------------------------------------------------------------
(* C28: a session that fails to initialize *)

\* connect() has failed
InitFailed == pc \in {"noBroker", "noTopics"}

\* the step is connect() with the broker connection failing, or with no
\* topic available
ConnectFails ==
    \/ \E allowedTopics \in AllowLists : Connect(FALSE, allowedTopics)
    \/ /\ \E allowedTopics \in AllowLists : Connect(TRUE, allowedTopics)
       /\ availableTopics' = {}

\* C28: if initialization fails (the broker connection fails, or the
\* computed availableTopics is empty) the session disconnects the socket
\* and is closing; no ready event is ever emitted and no socket event is
\* served: after the failure the session takes no step at all.
C28_FailedInitClosesSocket ==
    /\ [][ (pc \in {"new", "gone"} /\ ConnectFails) =>
              /\ closing'
              /\ out' = << SocketDisconnect >>
              /\ InitFailed' ]_vars
    /\ [](InitFailed => (closing /\ ~kafkaConsumer /\ out = << SocketDisconnect >>))
    /\ [][ ~InitFailed ]_vars

\* connect() found no topic to offer and disconnected the socket
C28_Witness ==
    /\ pc = "noTopics"
    /\ availableTopics = {}
    /\ closing
    /\ disconnectCalls = 1
    /\ out = << SocketDisconnect >>

----------------------------------------------------------------------------
(* C29: the ready event *)

\* a sequence of socket calls holds a ready event
EmitsReady(o) == \E i \in 1..Len(o) : o[i].k = "ready"

\* connect() has not run to its end yet
Connecting == pc \in {"new", "gone"}

\* the broker's topics the allow-list lets through: all without a list
AllowedMetadataTopics(allowedTopics) ==
    IF allowedTopics.given THEN { t \in MetadataTopics : t \in allowedTopics.topics }
    ELSE MetadataTopics

\* C29: ready is emitted at most once per session, only by a connect() that
\* succeeded, and only with a non-empty topic list equal to the broker's
\* metadata topics intersected with allowedTopics (all of them without an
\* allow-list); no handler changes availableTopics afterwards.
C29_ReadyOnceWithAvailableTopics ==
    [][ /\ ~Connecting =>
              /\ ~Connecting'
              /\ availableTopics' = availableTopics
              /\ ~EmitsReady(out')
        /\ (Connecting /\ EmitsReady(out')) =>
              /\ ~Connecting'
              /\ kafkaConsumer' /\ ~closing'
              /\ availableTopics' # {}
              /\ out' = << EmitReady(availableTopics') >>
              /\ \E allowedTopics \in AllowLists :
                    /\ Connect(TRUE, allowedTopics)
                    /\ availableTopics' = AllowedMetadataTopics(allowedTopics) ]_vars

\* connect() has just emitted ready with the one broker topic
C29_Witness ==
    /\ pc = "ready"
    /\ kafkaConsumer
    /\ availableTopics = {"t1"}
    /\ out = << EmitReady({"t1"}) >>

----------------------------------------------------------------------------
(* C30: the effective broker configuration *)

\* the setting of the effective configuration is the user's when the user
\* gave one, else the default
UserOrDefault(k, default) ==
    kafkaConfig[k] = IF k \in DOMAIN options THEN options[k] ELSE default

\* C30: whatever options.kafkaConfig holds, the effective configuration has
\* enable.auto.commit = false and group.id = "kasocki-<socket id>", and has
\* for metadata.broker.list and client.id the user's value when there is
\* one, else localhost:9092 and "kasocki-<socket id>".
C30_EffectiveKafkaConfig ==
    pc \notin {"constructing", "threw"} =>
        /\ DOMAIN kafkaConfig = ConfigKeys
        /\ kafkaConfig["enable.auto.commit"] = "false"
        /\ kafkaConfig["group.id"] = "kasocki-" \o name
        /\ UserOrDefault("metadata.broker.list", "localhost:9092")
        /\ UserOrDefault("client.id", "kasocki-" \o name)

\* the user asked for auto commit and a group of their own and named a
\* broker, but no client id: the session forces the first two, keeps the
\* broker and takes the default client id
C30_Witness ==
    /\ pc = "new"
    /\ name = "s2"
    /\ DOMAIN options = {"metadata.broker.list", "enable.auto.commit", "group.id"}
    /\ options["enable.auto.commit"] = "true"
    /\ options["group.id"] = "mygroup"
    /\ kafkaConfig["metadata.broker.list"] = "kafka1:9092"
    /\ kafkaConfig["client.id"] = "kasocki-s2"
    /\ kafkaConfig["group.id"] = "kasocki-s2"

----------------------------------------------------------------------------
(* C31: the errors a client receives *)

\* C31: every error sent to a client, in an ack or as an err event, is of
\* the taxonomy (an error of any other kind is sent as the generic
\* KasockiError), names the session's socket and the socket event that
\* failed, and has no stack trace.
C31_ErrorsSentAreTaxonomyErrors ==
    \A i \in 1..Len(out) :
        /\ out[i].e \in KasockiErrors
        /\ out[i].socket = name
        /\ out[i].socketEvent = out[i].ev
        /\ ~out[i].stack

\* an error that is no KasockiError failed a consume event of the second
\* socket: the ack and the err event carry a KasockiError
C31_Witness ==
    /\ name = "s2"
    /\ Len(out) = 2
    /\ out[1].k = "ack" /\ out[2].k = "err"
    /\ out[1].ev = "consume"
    /\ out[1].e = "KasockiError" /\ out[2].e = "KasockiError"

----------------------------------------------------------------------------
(* C32: stop *)

\* C32: stop never fails, whatever the state: it is acked without error and
\* without value. When running is false it changes nothing, so a stop after
\* a stop has the effect of one; when running is true it sets running to
\* false and nothing else.
C32_StopNeverFails ==
    [][ Answers("stop") =>
          /\ out' = << Ack("stop", << >>) >>
          /\ ~running'
          /\ UNCHANGED << pc, availableTopics, subscribed, closing, matcher,
                          broker, chains, history >>
          /\ ~running => UNCHANGED phase ]_vars

\* a stop was acked in a session that was not running and had never started
C32_Witness ==
    /\ subscribed /\ ~running /\ ~closing
    /\ phase = "fresh"
    /\ out = << Ack("stop", << >>) >>

----------------------------------------------------------------------------
(* C33: a session made without options *)

\* C33: every option is optional: the constructor called with no options
\* object raises no error and leaves a session with the defaults.
C33_NoOptionsConstructs ==
    [][ Constructor(FALSE) =>
          /\ pc' = "new"
          /\ kafkaConfig' = mergeKafkaConfig(name, NoKafkaConfig) ]_vars

----------------------------------------------------------------------------
(* C34: the per-event metric *)

\* the calls of the sink's increment among a step's calls
Increments(o) == { i \in 1..Len(o) : o[i].k = "statsd" /\ o[i].method = "increment" }

\* C34: for every socket event the wrap handles, a configured sink has its
\* increment invoked exactly once, with the key socketio.event.<event>;
\* without a sink nothing is invoked; the handler runs either way.
C34_MetricOncePerEvent ==
    [][ \A ev \in SocketEvents, cb \in BOOLEAN, o \in HandlerOutcomes :
          /\ MeteredCall(ev, cb, o, "client") =>
                /\ Cardinality(Increments(out')) = 1
                /\ \A i \in Increments(out') :
                      out'[i].args = << "socketio.event." \o ev >>
          /\ MeteredCall(ev, cb, o, "none") => Increments(out') = {} ]_vars

----------------------------------------------------------------------------
(* C35: one delivery loop *)

\* the delivery loops that are active: each has a poll outstanding, a record
\* whose callback is queued, or a retry delay pending
ActiveLoops == BagCardinality([ch \in { c \in BagToSet(chains) : c.kind = "loop" }
                                 |-> CopiesIn(ch, chains)])

\* C35: a session has at most one active delivery loop at any time, after
\* any sequence of start and stop events, start, stop, start with the first
\* loop's poll in flight included.
C35_AtMostOneLoop == ActiveLoops <= 1

----------------------------------------------------------------------------
(* C36: running means a loop is there *)

\* C36: whenever running is true a delivery loop is active (a poll, a retry
\* delay or an emit of it is pending); no loop ends, a hard broker error
\* included, leaving running true with no loop.
C36_RunningHasLoop ==
    running => \E ch \in BagToSet(chains) : ch.kind = "loop"

----------------------------------------------------------------------------
(* C37: what the loop emits *)

\* C37: every message event of the push loop carries a record that was
\* polled, deserialized and accepted by the current matcher; no message
\* event has an empty payload, also not when consume() returned no value
\* because the session is closing.
C37_LoopEmitsOnlyRecords ==
    \A i \in 1..Len(out) :
        out[i].k = "message" =>
            /\ out[i].v # << >>
            /\ LET message == out[i].v[1]
               IN  /\ message.topic \in DOMAIN position
                   /\ message.offset < position[message.topic]
                   /\ message.val # "bad"
                   /\ matcher = NoMatcher \/ matcher.val = message.val

----------------------------------------------------------------------------
(* C38: falsy values *)

\* no record is in the delivery history twice
NoRecordDeliveredTwice ==
    \A i, j \in 1..Len(delivered) :
        (delivered[i].topic = delivered[j].topic
           /\ delivered[i].offset = delivered[j].offset) => i = j

\* C38: while the session is not closing, every polled record that
\* deserializes and is accepted by the matcher is delivered exactly once,
\* whatever the deserialized value, a falsy one (0, false, null, "") from a
\* user-supplied deserializer included.
C38_FalsyValuesDelivered ==
    /\ []NoRecordDeliveredTwice
    /\ [][ \A ch \in BagToSet(chains), payload \in Payloads \cup FalsyPayloads :
             LET message == Message(ch.res.topic, ch.res.offset, payload)
             IN  (/\ ch.st = "got"
                  /\ RecordCallback(ch, payload)
                  /\ ~closing
                  /\ payload # "bad"
                  /\ match(message))
                 => /\ Len(Deliveries(out')) = 1
                    /\ out'[1].v = << message >>
                    /\ delivered' = delivered \o Deliveries(out') ]_vars

----------------------------------------------------------------------------
(* C39: a new filter and the records in flight *)

\* message m satisfies the filter f that the last successful filter event
\* left: none, the empty mapping, or a mapping asking for a value
Satisfies(m, f) ==
    \/ f.kind \in {"undefined", "empty"}
    \/ f.kind = "map" /\ m.val = f.val

\* the records a step hands to the client satisfy filter f
HandedOverSatisfy(o, f) ==
    \A i \in 1..Len(o) :
        (o[i].k \in {"ack", "message"} /\ o[i].ev \in {"consume", "loop"}
           /\ o[i].v # << >>) => Satisfies(o[i].v[1], f)

\* C39: once a filter event was acked without error, every message
\* delivered afterwards satisfies that filter until the next filter event
\* acked without error; the record of a poll that was in flight when the
\* filter was installed is no exception.
C39_DeliveredSatisfyLastFilter ==
    [][ /\ Answers("filter") =>
             \/ ReportsError(out') /\ matcher' = matcher
             \/ out' = << Ack("filter", << >>) >> /\ matcher' = NoMatcher
             \/ out' = << Ack("filter", << matcher' >>) >> /\ matcher'.kind \in {"map", "empty"}
        /\ ~Answers("filter") => matcher' = matcher
        /\ ChainStep => HandedOverSatisfy(out', matcher) ]_vars

\* a filter was installed while a poll was in flight: its record waits for
\* its callback
C39_Witness ==
    /\ out # << >> /\ out[1].k = "ack" /\ out[1].ev = "filter" /\ out[1].e = "none"
    /\ matcher = ValFilter("a")
    /\ \E ch \in BagToSet(chains) : ch.st = "got"

----------------------------------------------------------------------------
(* C40: a consume event ends *)

\* a consume event was handled and is not acked yet
PendingConsume == \E ch \in BagToSet(chains) : ch.kind = "pull"

\* the partitions handed out a record that deserialized and was accepted,
\* and it was delivered to nobody
AcceptedRecordUndelivered ==
    \E s \in skipped : s.why = "falsy" /\ DeliveriesOf(s.topic, s.offset) = {}

\* C40: under fair scheduling every consume event of a subscribed session
\* is eventually acked once the session is disconnected, and once the
\* partitions have held a record that deserializes and matches for it; as
\* long as neither happens the consume retries, and no consume event of a
\* subscribed session is acked with an error.
C40_ConsumeEventuallyAcked ==
    /\ (closing /\ PendingConsume) ~> ~PendingConsume
    /\ (PendingConsume /\ AcceptedRecordUndelivered) ~> ~PendingConsume
    /\ [][(subscribed /\ Answers("consume")) => ~ReportsError(out')]_vars

=============================================================================
